---------------------------- MODULE Spec2Model ----------------------------
(***************************************************************************)
(* A model of the Mandelbrot renderer of src/src/main.rs: the command     *)
(* line (clap), the precision planning and viewport of main, the          *)
(* SquaresComplex escape-time iterator and the parallel pixel loop.       *)
(*                                                                         *)
(* Numbers.  A rug::Float is modelled by the value it holds and the       *)
(* precision it was created with: the value is the record [m, x] standing *)
(* for m * 2^x with m odd (or m = 0, x = 0), and every operation that     *)
(* rounds in MPFR rounds here, to nearest with ties to even, at the       *)
(* precision the code asks for.  u32 and usize quantities of the          *)
(* precision planner reach 2^32, which TLC's integers do not, so they are *)
(* held in three base-10^4 limbs <<a, b, c>> = a*10^8 + b*10^4 + c.       *)
(***************************************************************************)
EXTENDS Integers, Sequences, FiniteSets, TLC

VARIABLES
    pc,               \* position of main: "start", "parsed", "planned", ...
    build,            \* "debug" (overflow checks on) or "release" (wrapping)
    argv,             \* the command line, before clap parses it
    args,             \* struct Args, after Args::parse()
    resolution_prec,  \* main's resolution_prec
    prec,             \* main's prec (three limbs)
    x_begin, y_begin, x_step, y_step,   \* main's viewport
    evals,            \* per pixel: how many times the filter_map closure ran
    collected,        \* per pixel: the closure's Option<(x, y, Rgb)>
    cursor,           \* how many items of the collected Vec were applied
    img,              \* the ImageBuffer
    puts,             \* per cell: how many put_pixel calls hit it
    iter              \* a square_iter(c).take(take).count() in progress

vars == <<pc, build, argv, args, resolution_prec, prec, x_begin, y_begin,
          x_step, y_step, evals, collected, cursor, img, puts, iter>>

mainVars == <<pc, build, argv, args, resolution_prec, prec, x_begin, y_begin,
              x_step, y_step, evals, collected, cursor, img, puts>>

\* Option<T>: None is the empty set and Some(v) the set of v alone
None == {}

Some(v) == {v}

Unwrap(o) == CHOOSE v \in o : TRUE

(***************************************************************************)
(* Integer helpers.                                                        *)
(***************************************************************************)
Abs(n) == IF n < 0 THEN -n ELSE n

Max(a, b) == IF a >= b THEN a ELSE b

Min(a, b) == IF a <= b THEN a ELSE b

RECURSIVE Pow2(_)
Pow2(k) == IF k <= 0 THEN 1 ELSE 2 * Pow2(k - 1)

\* number of bits of n >= 0 (0 for n = 0)
RECURSIVE BitLen(_)
BitLen(n) == IF n = 0 THEN 0 ELSE 1 + BitLen(n \div 2)

(***************************************************************************)
(* rug::Float values.                                                      *)
(***************************************************************************)
RECURSIVE Norm(_, _)
Norm(m, x) ==
    IF m = 0 THEN [m |-> 0, x |-> 0]
    ELSE IF m % 2 = 0 THEN Norm(m \div 2, x + 1)
    ELSE [m |-> m, x |-> x]

FZero == [m |-> 0, x |-> 0]

FInt(n) == Norm(n, 0)

\* m * 2^x written with exponent x0 <= x
Mant(a, x0) == a.m * Pow2(a.x - x0)

FNeg(a) == [m |-> -a.m, x |-> a.x]

\* round-to-nearest, ties-to-even, of the non-negative integer n / 2^s
RoundShift(n, s) ==
    LET q == n \div Pow2(s)
        r == n % Pow2(s)
        half == Pow2(s - 1)
    IN  IF r > half \/ (r = half /\ q % 2 = 1) THEN q + 1 ELSE q

\* Float::with_val(p, a): a rounded to p significant bits
FRound(p, a) ==
    LET len == BitLen(Abs(a.m))
    IN  IF len <= p THEN a
        ELSE LET s == len - p
                 q == RoundShift(Abs(a.m), s)
             IN  Norm(IF a.m < 0 THEN -q ELSE q, a.x + s)

\* the exact sum, difference and product
FAddExact(a, b) ==
    LET x0 == Min(a.x, b.x) IN Norm(Mant(a, x0) + Mant(b, x0), x0)

FSubExact(a, b) == FAddExact(a, FNeg(b))

FMulExact(a, b) == Norm(a.m * b.m, a.x + b.x)

\* the operations as MPFR performs them: the exact result, rounded once
FAdd(p, a, b) == FRound(p, FAddExact(a, b))

FSub(p, a, b) == FRound(p, FSubExact(a, b))

FMul(p, a, b) == FRound(p, FMulExact(a, b))

\* a / n for an integer n > 0, correctly rounded to p bits: the quotient is
\* taken with at least two bits beyond p, the remainder is the sticky bit
FDivU(p, a, n) ==
    IF a.m = 0 THEN FZero
    ELSE
    LET t  == Max(0, p + 2 + BitLen(n) - BitLen(Abs(a.m)))
        N  == Abs(a.m) * Pow2(t)
        Q  == N \div n
        R  == N % n
        s  == BitLen(Q) - p
        q  == Q \div Pow2(s)
        r  == Q % Pow2(s)
        half == Pow2(s - 1)
        up == r > half \/ (r = half /\ R > 0) \/ (r = half /\ R = 0 /\ q % 2 = 1)
        q1 == IF up THEN q + 1 ELSE q
    IN  Norm(IF a.m < 0 THEN -q1 ELSE q1, a.x - t + s)

FLess(a, b) == LET x0 == Min(a.x, b.x) IN Mant(a, x0) < Mant(b, x0)

FLeq(a, b) == LET x0 == Min(a.x, b.x) IN Mant(a, x0) <= Mant(b, x0)

FAbs(a) == [m |-> Abs(a.m), x |-> a.x]

(***************************************************************************)
(* SquaresComplex (lines 110-136).                                         *)
(***************************************************************************)
\* Complex::with_val(p, (re, im))
ComplexWithVal(p, re, im) == [re |-> FRound(p, re), im |-> FRound(p, im)]

\* z.square_mut(): both parts correctly rounded at z's precision
SquareMut(p, z) ==
    [re |-> FRound(p, FSubExact(FMulExact(z.re, z.re), FMulExact(z.im, z.im))),
     im |-> FRound(p, FMulExact(FInt(2), FMulExact(z.re, z.im)))]

\* z += &c
AddAssign(p, z, c) == [re |-> FAdd(p, z.re, c.re), im |-> FAdd(p, z.im, c.im)]

\* The precision of dist, and the number dist is compared with (line 122-123)
DistPrec == 5

DistLimit == 4

\* Float::with_val(5, 4_f32) > ... : the first 5-bit number above DistLimit is
\* DistLimit + ulp with ulp = 2^-DistUlpBits (4 = 100.00b: ulp = 1/4), and
\* the midpoint of the two is DistLimit + ulp/2 = DistMidNum / 2^(DistUlpBits+1)
DistUlpBits == DistPrec - BitLen(DistLimit)

DistMidNum == DistLimit * Pow2(DistUlpBits + 1) + 1

\* A magnitude test with the escape radius 2 of the textbook algorithm: the
\* fault C3_ThresholdFour rules out
DistExceeds_Radius2(z) ==
    LET x0 == Min(Min(z.re.x, z.im.x), 0)
        r  == Abs(Mant(z.re, x0))
        i  == Abs(Mant(z.im, x0))
    IN  IF r > 2 * Pow2(-x0) \/ i > 2 * Pow2(-x0) THEN TRUE
        ELSE r * r + i * i > 4 * Pow2(2 * (-x0))

\* Float::with_val(5, z.abs_ref()) > Float::with_val(5, 4_f32).
\* dist is |z| rounded to nearest at 5 bits, so dist > 4 iff dist >= 4.25
\* iff |z| > 4.125: the tie 4.125 goes to the even mantissa, which is 4's.
\* |z| > 33/8 is decided exactly, on the squares of the parts written with
\* the common exponent -e: 64 * (r^2 + i^2) > 33^2 * 4^e.
DistExceeds(z) ==
    LET x0 == Min(Min(z.re.x, z.im.x), 0)
        e  == -x0
        r  == Abs(Mant(z.re, x0))
        i  == Abs(Mant(z.im, x0))
        big == (DistLimit + 1) * Pow2(e)
    IN  IF r >= big \/ i >= big THEN TRUE
        ELSE Pow2(2 * (DistUlpBits + 1)) * (r * r + i * i)
                 > DistMidNum * DistMidNum * Pow2(2 * e)

\* square_iter(c): z = 0 at c's precision
square_iter(p, c) == [z |-> [re |-> FZero, im |-> FZero], c |-> c, p |-> p]

\* One call of SquaresComplex::next: the new z and whether it returned Some
SquaresNext(s) ==
    LET z1 == AddAssign(s.p, SquareMut(s.p, s.z), s.c)
    IN  [s |-> [s EXCEPT !.z = z1], some |-> ~DistExceeds(z1)]

\* square_iter(c).take(n).count(): Take calls next() while n > 0 and count
\* adds one for every Some
RECURSIVE TakeCount(_, _)
TakeCount(s, n) ==
    IF n = 0 THEN 0
    ELSE LET r == SquaresNext(s)
         IN  IF r.some THEN 1 + TakeCount(r.s, n - 1) ELSE 0

(***************************************************************************)
(* u32 / usize / f64 quantities of the precision planner, in three limbs  *)
(* of base 10^4, most significant first.                                   *)
(***************************************************************************)
Limb == 10^4

Big(n) == <<n \div (Limb * Limb), (n \div Limb) % Limb, n % Limb>>

BigToInt(b) == (b[1] * Limb + b[2]) * Limb + b[3]

BigLess(a, b) ==
    \/ a[1] < b[1]
    \/ a[1] = b[1] /\ a[2] < b[2]
    \/ a[1] = b[1] /\ a[2] = b[2] /\ a[3] < b[3]

BigLeq(a, b) == a = b \/ BigLess(a, b)

BigMax(a, b) == IF BigLess(a, b) THEN b ELSE a

\* a + b, the top limb left to grow
BigAdd(a, b) ==
    LET s3 == a[3] + b[3]
        s2 == a[2] + b[2] + s3 \div Limb
    IN  <<a[1] + b[1] + s2 \div Limb, s2 % Limb, s3 % Limb>>

\* a - b for a >= b
BigSub(a, b) ==
    LET d3 == a[3] - b[3]
        w3 == IF d3 < 0 THEN 1 ELSE 0
        d2 == a[2] - b[2] - w3
        w2 == IF d2 < 0 THEN 1 ELSE 0
    IN  <<a[1] - b[1] - w2, d2 + w2 * Limb, d3 + w3 * Limb>>

\* u32::MAX = 4294967295 and 2^32
U32Max == <<42, 9496, 7295>>

U32Modulus == <<42, 9496, 7296>>

\* a + b in u32 (lines 107, 152, 174).  An overflowing sum panics in a build
\* with overflow checks and wraps modulo 2^32 in one without.
U32Sum(b, sum) ==
    IF BigLess(sum, U32Modulus) THEN [ok |-> TRUE, val |-> sum]
    ELSE IF b = "debug" THEN [ok |-> FALSE, val |-> sum]
    ELSE [ok |-> TRUE, val |-> BigSub(sum, U32Modulus)]

U32Add(b, a1, a2) == U32Sum(b, BigAdd(a1, a2))

\* 10_f64.log2() = 3.32192809488736218170..., the decimal expansion of the
\* f64 in limbs of four digits: 3 . 3219 2809 4887 3621 8170
Log2_10 == <<3, 3219, 2809, 4887, 3621, 8170>>

\* The limb of weight Limb^p of d * Log2_10, before carries: the products
\* d_i * Log2_10_j with i - j = p (d_i of weight Limb^i, Log2_10_j of
\* weight Limb^-j)
Coef(d, p) ==
    LET term(j) == IF p + j >= 0 /\ p + j <= 2
                   THEN d[3 - (p + j)] * Log2_10[j + 1] ELSE 0
    IN  term(0) + term(1) + term(2) + term(3) + term(4) + term(5)

\* The limbs of d * Log2_10 from weight Limb^p up to Limb^2, least first,
\* and the carry out of them last
RECURSIVE ProductLimbs(_, _, _)
ProductLimbs(d, p, carry) ==
    IF p > 2 THEN <<carry>>
    ELSE <<(Coef(d, p) + carry) % Limb>>
             \o ProductLimbs(d, p + 1, (Coef(d, p) + carry) \div Limb)

\* (d as f64 * 10_f64.log2()).ceil().min(u32::MAX as f64), then
\* to_int_unchecked::<u32>() (lines 103-107, 171-173): the value is an
\* integer in 0..=u32::MAX, so the unchecked conversion is defined.
\* .min(u32::MAX as f64) of a value held as three limbs and the carry out
\* of them
MinU32Max(carry, ceil) ==
    IF carry > 0 \/ BigLess(U32Max, ceil) THEN U32Max ELSE ceil

\* .ceil() of the product l: weights Limb^-5..Limb^2 at 1..8, carry at 9
CeilLimbs(l) ==
    MinU32Max(l[9], IF \E k \in 1..5 : l[k] # 0
                    THEN BigAdd(<<l[8], l[7], l[6]>>, Big(1))
                    ELSE <<l[8], l[7], l[6]>>)

CeilLog2_10(d) == CeilLimbs(ProductLimbs(d, -5, 0))

\* num_digits_log2_10 (lines 102-108)
num_digits_log2_10(b, d) == U32Add(b, Big(4), CeilLog2_10(d))

\* A logarithm rounded up: the fault C9_FloorLog2 rules out
ILog2_Ceil(n) == BitLen(n - 1)

\* u32::log2 (line 141): the position of the highest set bit
ILog2(n) == BitLen(n) - 1

\* line 141
ResolutionPrec(res) == ILog2(Max(res[1], res[2])) + 1

\* Float::with_val(prec, ..) asserts prec >= 1
PrecOk(p) == p # Big(0)

\* FRound at a precision held in limbs (a precision of 10^4 bits or more
\* rounds nothing the model holds)
FRoundBig(p, a) == IF p[1] = 0 /\ p[2] = 0 THEN FRound(p[3], a) ELSE a

(***************************************************************************)
(* Args::parse() (lines 10-100, 139).  A numeric literal of the command   *)
(* line is held as its length in characters and the number it spells.     *)
(***************************************************************************)
\* parse_range (lines 89-100): both ends at the precision that the longer
\* literal asks for
\* lines 95-99: the two ends at the precision computed on line 93
RangeWithVal(precision, range) ==
    IF ~precision.ok \/ ~PrecOk(precision.val) THEN [ok |-> FALSE]
    ELSE [ok |-> TRUE,
          start |-> FRoundBig(precision.val, range.begin.val),
          end   |-> FRoundBig(precision.val, range.end.val),
          prec  |-> precision.val]

parse_range(b, range) ==
    RangeWithVal(num_digits_log2_10(b, BigMax(range.begin.len, range.end.len)),
                 range)

\* parse_point (lines 69-87): point.d is the largest per-part digit count
\* (digits, plus one for a sign, plus the size of an exponent)
\* line 86: the complex number at the precision computed on line 84
PointWithVal(len, point) ==
    IF ~len.ok \/ ~PrecOk(len.val) THEN [ok |-> FALSE]
    ELSE [ok |-> TRUE,
          re |-> FRoundBig(len.val, point.re),
          im |-> FRoundBig(len.val, point.im),
          prec |-> len.val]

parse_point(b, point) == PointWithVal(num_digits_log2_10(b, point.d), point)

\* An optional argument: absent, or what its value parser returned
OptOf(r) == [ok |-> r.ok, opt |-> IF r.ok THEN Some(r) ELSE None]

\* domain and range, parsed by parse_range (lines 18, 23)
RangeOpt(b, opt) ==
    IF opt = None THEN [ok |-> TRUE, opt |-> None]
    ELSE OptOf(parse_range(b, Unwrap(opt)))

\* centered_around, parsed by parse_point (line 28)
PointOpt(b, opt) ==
    IF opt = None THEN [ok |-> TRUE, opt |-> None]
    ELSE OptOf(parse_point(b, Unwrap(opt)))

\* The struct Args from the parsed options; ok is FALSE when a parser
\* panicked
ArgsOf(a, domain, range, center) ==
    IF ~domain.ok \/ ~range.ok \/ ~center.ok THEN [ok |-> FALSE]
    ELSE [ok |-> TRUE, resolution |-> a.resolution,
          domain |-> domain.opt, range |-> range.opt,
          centered_around |-> center.opt, zoom |-> a.zoom,
          take |-> a.take, gradient_interval |-> a.gradient_interval,
          exponential_gradient |-> a.exponential_gradient]

\* The struct Args that clap builds
ParsedArgs(b, a) ==
    ArgsOf(a, RangeOpt(b, a.domain), RangeOpt(b, a.range),
           PointOpt(b, a.centered_around))

(***************************************************************************)
(* main, lines 141-191: the precision and the viewport.                    *)
(***************************************************************************)
\* Lines 141-152 and 167-174: resolution_prec and prec, or the panic that
\* ends main there
\* A sum of three terms, left to right: s1 the first addition and s2 the
\* second, either of which may have overflowed
PlannedSum(rp, s1, s2) ==
    IF s1.ok /\ s2.ok
    THEN [pc |-> "planned", rp |-> rp, prec |-> s2.val]
    ELSE [pc |-> "panic_overflow", rp |-> rp]

\* line 152: (resolution_prec + max(..)) + 4
BoundsPrec(b, rp, s1) == PlannedSum(rp, s1, U32Add(b, s1.val, Big(4)))

\* line 174: (zoom_p + 3) + resolution_prec
ZoomPrec(b, rp, s1) == PlannedSum(rp, s1, U32Add(b, s1.val, Big(rp)))

PlannedWith(b, a, rp) ==
    IF a.domain # None
    THEN IF a.range = None
         THEN [pc |-> "panic_expect_range", rp |-> rp]
         ELSE BoundsPrec(b, rp, U32Add(b, Big(rp),
                                       BigMax(Unwrap(a.domain).prec,
                                              Unwrap(a.range).prec)))
    ELSE IF a.zoom = None
         THEN [pc |-> "panic_expect_zoom", rp |-> rp]
         ELSE ZoomPrec(b, rp, U32Add(b, CeilLog2_10(Unwrap(a.zoom)), Big(3)))

PlannedPrec(b, a) == PlannedWith(b, a, ResolutionPrec(a.resolution))

\* Lines 153-165: the viewport from domain and range
BoundsViewport(a, p) ==
    LET domain == Unwrap(a.domain)
        range  == Unwrap(a.range)
    IN  [x_step  |-> FDivU(p, FSub(p, domain.start, domain.end), a.resolution[1]),
         y_step  |-> FDivU(p, FSub(p, range.start, range.end), a.resolution[2]),
         x_begin |-> FRound(p, domain.start),
         y_begin |-> FRound(p, range.start)]

\* Lines 176-181: 1 / 2^zoom, over the resolution
StepsOver(a, p, step) ==
    [x_step |-> FDivU(p, step, a.resolution[1]),
     y_step |-> FDivU(p, step, a.resolution[2])]

ZoomSteps(a, p) == StepsOver(a, p, Norm(1, -BigToInt(Unwrap(a.zoom))))

\* Lines 189-190: the corner, half a view from the centre
ZoomBegin(a, p, st) ==
    LET center == Unwrap(a.centered_around)
    IN  [x_begin |-> FSub(p, center.re,
                          FMul(p, st.x_step, FInt(a.resolution[1] \div 2))),
         y_begin |-> FSub(p, center.im,
                          FMul(p, st.y_step, FInt(a.resolution[2] \div 2)))]

\* Lines 153-191: the viewport, or the panic that ends main there.  prec is
\* the planned precision; Float::with_val refuses a precision of 0.
\* A zoom mode that centres on the origin when centered_around is absent:
\* the fault C5_DomainDecidesMode rules out
ZoomViewport_OriginCentre(a, p, st) ==
    [pc |-> "mapped", x_begin |-> FZero, y_begin |-> FZero] @@ st

\* Lines 183-190: the steps are computed before the centre is asked for
ZoomViewport(a, p, st) ==
    IF a.centered_around = None
    THEN [pc |-> "panic_expect_center"] @@ st
    ELSE [pc |-> "mapped"] @@ st @@ ZoomBegin(a, p, st)

MappedAt(a, p) ==
    IF a.domain # None
    THEN [pc |-> "mapped"] @@ BoundsViewport(a, p)
    ELSE ZoomViewport(a, p, ZoomSteps(a, p))

MappedView(a, precision) ==
    IF ~PrecOk(precision) THEN [pc |-> "panic_precision"]
    ELSE MappedAt(a, BigToInt(precision))

PanicStates == {"panic_parse", "panic_expect_range", "panic_expect_zoom",
                "panic_expect_center", "panic_overflow", "panic_precision"}

(***************************************************************************)
(* main, lines 195-264: the gradient and the pixel loop.                   *)
(***************************************************************************)
\* The two gradients (lines 196-207 and 209-220): <<position, r, g, b>>,
\* positions in halves and channels in quarters
ExponentialStops ==
    << <<0, 4, 4, 4>>, <<1, 2, 0, 0>>, <<2, 4, 0, 0>>, <<4, 4, 2, 0>>,
       <<8, 2, 4, 2>>, <<16, 0, 4, 4>>, <<32, 0, 2, 4>>, <<64, 0, 0, 4>>,
       <<128, 1, 0, 4>>, <<256, 4, 4, 4>> >>

LinearStops ==
    << <<0, 4, 4, 4>>, <<1, 2, 0, 0>>, <<3, 4, 0, 0>>, <<5, 4, 2, 0>>,
       <<7, 2, 4, 2>>, <<9, 0, 4, 4>>, <<11, 0, 2, 4>>, <<13, 0, 0, 4>>,
       <<15, 1, 0, 4>>, <<16, 4, 4, 4>> >>

\* gradient.get(scale * num / den) as 8-bit channels: the colour between
\* the two stops around the position, each channel times 255, truncated
\* (lines 249-255).  The position is below the last stop: num < den.
GradientGet(stops, scale, num, den) ==
    LET q2 == 2 * scale * num      \* the position in halves, times den
        k  == CHOOSE j \in 1..(Len(stops) - 1) :
                  /\ stops[j][1] * den <= q2
                  /\ q2 < stops[j + 1][1] * den
        lo == stops[k]
        hi == stops[k + 1]
        fn == q2 - lo[1] * den                 \* factor = fn / fd
        fd == (hi[1] - lo[1]) * den
        byte(c) == (255 * (lo[c] * fd + (hi[c] - lo[c]) * fn)) \div (4 * fd)
    IN  <<byte(2), byte(3), byte(4)>>

\* Lines 236-243: the colour of an iteration count
Colour(a, i) ==
    IF a.exponential_gradient
    THEN GradientGet(ExponentialStops, 128, i, a.take)
    ELSE GradientGet(LinearStops, 8, i % a.gradient_interval,
                     a.gradient_interval)

\* Lines 229-230: &begin + Float::with_val(prec, i * &step)
PointOf(p, begin, step, i) == FAdd(p, begin, FMul(p, FInt(i), step))

\* A point that depends on how many tasks have already run, as a counter
\* shared between the tasks would make it: the fault C6_OrderIndependent
\* rules out
PixelPoint_TaskOrder(p, x, y) ==
    [re |-> PointOf(p, x_begin, x_step,
                    x + Cardinality({q \in DOMAIN evals : evals[q] # 0})),
     im |-> PointOf(p, y_begin, y_step, y)]

\* Lines 229-230: the point of pixel (x, y)
PixelPoint(p, x, y) ==
    [re |-> PointOf(p, x_begin, x_step, x),
     im |-> PointOf(p, y_begin, y_step, y)]

\* Lines 232-234: the iteration count of pixel (x, y)
PixelCount(x, y) ==
    LET p == BigToInt(prec)
        c == PixelPoint(p, x, y)
    IN  TakeCount(square_iter(p, ComplexWithVal(p, c.re, c.im)), args.take)

\* Lines 228-260: the filter_map closure on (x, y)
\* Lines 236-259: the colour of a count below take, nothing for take
Coloured(x, y, i) ==
    IF i < args.take THEN Some(<<x, y, Colour(args, i)>>) ELSE None

PixelResult(x, y) == Coloured(x, y, PixelCount(x, y))

\* (0..w).flat_map(|x| (0..h).map(|y| (x, y))) (lines 225-227)
Pixels(res) == (0..(res[1] - 1)) \X (0..(res[2] - 1))

\* The position of (x, y) in that iteration, from 1
PixelIndex(res, px) == px[1] * res[2] + px[2] + 1

PixelAt(res, k) == <<(k - 1) \div res[2], (k - 1) % res[2]>>

\* collect::<Vec<_>>() (line 261): rayon keeps the items in the order of
\* the iterator, whatever the order in which they were produced
CollectedVec ==
    LET n   == args.resolution[1] * args.resolution[2]
        all == [k \in 1..n |-> collected[PixelAt(args.resolution, k)]]
        kept == SelectSeq(all, LAMBDA item : item # None)
    IN  [k \in 1..Len(kept) |-> Unwrap(kept[k])]

\* ImageBuffer::new(w, h) (line 223): every pixel zero
NewImage(res) == [px \in Pixels(res) |-> <<0, 0, 0>>]

(***************************************************************************)
(* The evaluator alone: one square_iter(c).take(take).count(), a call of  *)
(* next() per step (lines 115-136, 232-234).                               *)
(***************************************************************************)
\* c ranges over the points (re/2, im/2) with |re|, |im| <= EvalCoordMax
EvalCoordMax == 10

\* take ranges over 0..MaxTake
MaxTake == 3

\* Precisions of c: the least main plans in zoom mode (1x1, zoom 0), the
\* least it plans in domain+range mode, and a wider one
EvalPrecs == {4, 13, 24}

Half(n) == Norm(n, -1)

NoIter == [s |-> square_iter(1, [re |-> FZero, im |-> FZero]), take |-> 0,
           n |-> 0, count |-> 0, calls |-> 0, fired |-> FALSE, done |-> TRUE]

\* A Take that allows one call more than the cap: the fault
\* C1_CountBounded rules out
StartIter_ExtraCall(p, re, im, take) ==
    [s |-> square_iter(p, ComplexWithVal(p, re, im)), take |-> take,
     n |-> take + 1, count |-> 0, calls |-> 0, fired |-> FALSE, done |-> FALSE]

\* square_iter(Complex::with_val(prec, (x_val, y_val))).take(take)
StartIter(p, re, im, take) ==
    [s |-> square_iter(p, ComplexWithVal(p, re, im)), take |-> take,
     n |-> take, count |-> 0, calls |-> 0, fired |-> FALSE, done |-> FALSE]

\* Take::next with n > 0 and the inner next() returning Some(()): counted
TakeNextSome ==
    /\ ~iter.done /\ iter.n > 0
    /\ LET r == SquaresNext(iter.s)
       IN  /\ r.some
           /\ iter' = [iter EXCEPT !.s = r.s, !.n = iter.n - 1,
                                   !.count = iter.count + 1,
                                   !.calls = iter.calls + 1]
    /\ UNCHANGED mainVars

\* A count that includes the call that returned None: the fault
\* C2_CountExcludesEscape rules out
TakeNextNone_Counted ==
    /\ ~iter.done /\ iter.n > 0
    /\ LET r == SquaresNext(iter.s)
       IN  /\ ~r.some
           /\ iter' = [iter EXCEPT !.s = r.s, !.n = iter.n - 1,
                                   !.count = iter.count + 1,
                                   !.calls = iter.calls + 1,
                                   !.fired = TRUE, !.done = TRUE]
    /\ UNCHANGED mainVars

\* Take::next with n > 0 and the inner next() returning None: count() ends
TakeNextNone ==
    /\ ~iter.done /\ iter.n > 0
    /\ LET r == SquaresNext(iter.s)
       IN  /\ ~r.some
           /\ iter' = [iter EXCEPT !.s = r.s, !.n = iter.n - 1,
                                   !.calls = iter.calls + 1,
                                   !.fired = TRUE, !.done = TRUE]
    /\ UNCHANGED mainVars

\* Take::next with n = 0: None without calling the inner iterator
TakeExhausted ==
    /\ ~iter.done /\ iter.n = 0
    /\ iter' = [iter EXCEPT !.done = TRUE]
    /\ UNCHANGED mainVars

IdleMain ==
    /\ pc = "idle" /\ build = "release" /\ argv = None /\ args = [ok |-> FALSE]
    /\ resolution_prec = 0 /\ prec = <<0, 0, 0>>
    /\ x_begin = FZero /\ y_begin = FZero /\ x_step = FZero /\ y_step = FZero
    /\ evals = <<>> /\ collected = <<>> /\ cursor = 0 /\ img = <<>> /\ puts = <<>>

EvalInit ==
    /\ IdleMain
    /\ \E p \in EvalPrecs, re \in -EvalCoordMax..EvalCoordMax,
          im \in -EvalCoordMax..EvalCoordMax, take \in 0..MaxTake :
          iter = StartIter(p, Half(re), Half(im), take)

EvalNext == TakeNextSome \/ TakeNextNone \/ TakeExhausted

SpecEval == EvalInit /\ [][EvalNext]_vars

(***************************************************************************)
(* main as a state machine.                                                *)
(***************************************************************************)
idleIter == iter = NoIter

\* Line 139: Args::parse()
ParseArgs ==
    /\ pc = "start"
    /\ \E a \in {ParsedArgs(build, argv)} :
           IF ~a.ok
           THEN pc' = "panic_parse" /\ args' = args
           ELSE pc' = "parsed" /\ args' = a
    /\ UNCHANGED <<build, argv, resolution_prec, prec, x_begin, y_begin, x_step,
                   y_step, evals, collected, cursor, img, puts, iter>>

\* Lines 141-152, 167-174
PlanPrecision ==
    /\ pc = "parsed"
    /\ \E r \in {PlannedPrec(build, args)} :
           /\ pc' = r.pc
           /\ resolution_prec' = r.rp
           /\ prec' = IF r.pc = "planned" THEN r.prec ELSE prec
    /\ UNCHANGED <<build, argv, args, x_begin, y_begin, x_step, y_step, evals,
                   collected, cursor, img, puts, iter>>

\* Lines 153-165, 176-223: the viewport, and the empty image
MapViewport ==
    /\ pc = "planned"
    /\ \E v \in {MappedView(args, prec)} :
           /\ pc' = v.pc
           /\ x_step'  = IF "x_step" \in DOMAIN v THEN v.x_step ELSE x_step
           /\ y_step'  = IF "y_step" \in DOMAIN v THEN v.y_step ELSE y_step
           /\ x_begin' = IF "x_begin" \in DOMAIN v THEN v.x_begin ELSE x_begin
           /\ y_begin' = IF "y_begin" \in DOMAIN v THEN v.y_begin ELSE y_begin
           /\ IF v.pc = "mapped"
              THEN /\ img' = NewImage(args.resolution)
                   /\ evals' = [px \in Pixels(args.resolution) |-> 0]
                   /\ puts' = [px \in Pixels(args.resolution) |-> 0]
                   /\ collected' = [px \in Pixels(args.resolution) |-> None]
              ELSE UNCHANGED <<img, evals, puts, collected>>
    /\ UNCHANGED <<build, argv, args, resolution_prec, prec, cursor, iter>>

\* An iterator that may hand a pixel to the closure a second time: the
\* fault C10_WriteOnce rules out
Unvisited_Revisit(x, y) == evals[<<x, y>>] < 2

\* The parallel iterator hands every (x, y) to the closure once
Unvisited(x, y) == evals[<<x, y>>] = 0

\* Lines 228-260: one task of the parallel iterator: the closure on one pixel,
\* in any order and on any worker
EvalPixel(x, y) ==
    /\ pc = "mapped"
    /\ Unvisited(x, y)
    /\ evals' = [evals EXCEPT ![<<x, y>>] = @ + 1]
    /\ collected' = [collected EXCEPT ![<<x, y>>] = PixelResult(x, y)]
    /\ UNCHANGED <<pc, build, argv, args, resolution_prec, prec, x_begin,
                   y_begin, x_step, y_step, cursor, img, puts, iter>>

\* Line 261: collect() returns when every task has run
Collect ==
    /\ pc = "mapped"
    /\ \A px \in Pixels(args.resolution) : ~Unvisited(px[1], px[2])
    /\ pc' = "apply"
    /\ cursor' = 0
    /\ UNCHANGED <<build, argv, args, resolution_prec, prec, x_begin, y_begin,
                   x_step, y_step, evals, collected, img, puts, iter>>

\* Lines 225, 263: the for loop's next item, img.put_pixel(x, y, p)
PutPixel ==
    /\ pc = "apply"
    /\ cursor < Len(CollectedVec)
    /\ LET item == CollectedVec[cursor + 1]
           px   == <<item[1], item[2]>>
       IN  /\ px \in DOMAIN img
           /\ img' = [img EXCEPT ![px] = item[3]]
           /\ puts' = [puts EXCEPT ![px] = @ + 1]
    /\ cursor' = cursor + 1
    /\ UNCHANGED <<pc, build, argv, args, resolution_prec, prec, x_begin,
                   y_begin, x_step, y_step, evals, collected, iter>>

\* Lines 266-267: the loop is over, the image is saved
Save ==
    /\ pc = "apply"
    /\ cursor = Len(CollectedVec)
    /\ pc' = "saved"
    /\ UNCHANGED <<build, argv, args, resolution_prec, prec, x_begin, y_begin,
                   x_step, y_step, evals, collected, cursor, img, puts, iter>>

Builds == {"debug", "release"}

\* main before Args::parse()
StartMain(b, a) ==
    /\ pc = "start" /\ build = b /\ argv = a /\ args = [ok |-> FALSE]
    /\ resolution_prec = 0 /\ prec = <<0, 0, 0>>
    /\ x_begin = FZero /\ y_begin = FZero /\ x_step = FZero /\ y_step = FZero
    /\ evals = <<>> /\ collected = <<>> /\ cursor = 0 /\ img = <<>> /\ puts = <<>>
    /\ idleIter

(***************************************************************************)
(* The command lines explored.                                             *)
(***************************************************************************)
Lit(len, m, x) == [len |-> Big(len), val |-> Norm(m, x)]

Pair(b, e) == [begin |-> b, end |-> e]

\* --domain: "5,6", "-1,1", "0.5,2.5"
DomainLits ==
    {Pair(Lit(1, 5, 0), Lit(1, 6, 0)), Pair(Lit(2, -1, 0), Lit(1, 1, 0)),
     Pair(Lit(3, 1, -1), Lit(3, 5, -1))}

\* --range: "0,1", "-1,1"
RangeLits ==
    {Pair(Lit(1, 0, 0), Lit(1, 1, 0)), Pair(Lit(2, -1, 0), Lit(1, 1, 0))}

\* --centered-around: "(0,0)", "(5,-0.5)"
CenterLits ==
    {[d |-> Big(1), re |-> FZero, im |-> FZero],
     [d |-> Big(3), re |-> FInt(5), im |-> Norm(-1, -1)]}

Opt(S) == {None} \cup {Some(v) : v \in S}

\* The renders explored: widths up to MaxRes and heights 1 and 2, caps up
\* to RenderMaxTake, the zoom levels 0 and 1, the intervals 1 and 2
MaxRes == 2

RenderMaxTake == 2

\* What decides the viewport and the counts, and what decides the colours
RenderViews ==
    [resolution : (1..MaxRes) \X {1, 2},
     domain : Opt(DomainLits), range : Opt(RangeLits),
     centered_around : Opt(CenterLits),
     zoom : Opt({Big(0), Big(1)}),
     take : 0..RenderMaxTake]

RenderGradients ==
    [gradient_interval : {1, 2}, exponential_gradient : BOOLEAN]

\* The iterates of a render are held exactly: a point with f fraction bits
\* has an n-th iterate with up to f * 2^(n-1) of them, and TLC's 32-bit
\* integers hold the squares of iterates with up to IterFracBits
IterFracBits == 8

FracBits(f) == IF f.x < 0 THEN -f.x ELSE 0

ExactView(a, p, mv) ==
    IF mv.pc # "mapped" \/ a.take = 0 THEN TRUE
    ELSE /\ \A x \in 0..(a.resolution[1] - 1) :
                FracBits(PointOf(p, mv.x_begin, mv.x_step, x))
                    * Pow2(a.take - 1) <= IterFracBits
         /\ \A y \in 0..(a.resolution[2] - 1) :
                FracBits(PointOf(p, mv.y_begin, mv.y_step, y))
                    * Pow2(a.take - 1) <= IterFracBits

ExactPlan(a, pa, pl) ==
    IF pl.pc # "planned" THEN TRUE
    ELSE ExactView(a, BigToInt(pl.prec), MappedView(pa, pl.prec))

ExactArgs(b, a, pa) ==
    IF ~pa.ok THEN TRUE ELSE ExactPlan(a, pa, PlannedPrec(b, pa))

Exact(b, a) == ExactArgs(b, a, ParsedArgs(b, a))

RenderInit ==
    \E b \in Builds, v \in RenderViews, g \in RenderGradients :
        Exact(b, v @@ g) /\ StartMain(b, v @@ g)

RenderNext ==
    \/ ParseArgs
    \/ PlanPrecision
    \/ MapViewport
    \/ \E px \in Pixels(argv.resolution) : EvalPixel(px[1], px[2])
    \/ Collect
    \/ PutPixel
    \/ Save

SpecRender == RenderInit /\ [][RenderNext]_vars

\* The plans explored: resolutions with a side up to PlanMaxRes or one of
\* the larger sides, zoom levels up to PlanMaxZoom or one of LargeZooms
PlanMaxRes == 9

PlanMaxZoom == 4

LargeSides == {1440, 2560, 65535, 65536}

\* 1292913984 and the next two (the first zoom levels whose zoom_p is within
\* a few units of 2^32), and the two largest u32
LargeZooms ==
    {<<12, 9291, 3984>>, <<12, 9291, 3985>>, <<12, 9291, 3986>>,
     <<42, 9496, 7294>>, U32Max}

PlanArgvs ==
    [resolution : ((1..PlanMaxRes) \cup LargeSides) \X {1, 3, 1440},
     domain : Opt({Pair(Lit(2, -1, 0), Lit(1, 1, 0))}),
     range : Opt({Pair(Lit(7, -555, 0), Lit(7, -5525, 0))}),
     centered_around : Opt({[d |-> Big(1), re |-> FZero, im |-> FZero]}),
     zoom : Opt({Big(z) : z \in 0..PlanMaxZoom} \cup LargeZooms),
     take : {1}, gradient_interval : {1}, exponential_gradient : {FALSE}]

PlanInit == \E b \in Builds, a \in PlanArgvs : StartMain(b, a)

PlanNext == ParseArgs \/ PlanPrecision

SpecPlan == PlanInit /\ [][PlanNext]_vars

(***************************************************************************)
(* Claims about the evaluator, checked under SpecEval.                     *)
(***************************************************************************)
\* |z| > num / den, decided exactly on the squares of the parts written with
\* a common exponent
MagnitudeAbove(z, num, den) ==
    LET x0 == Min(Min(z.re.x, z.im.x), 0)
        e  == -x0
        r  == Abs(Mant(z.re, x0))
        i  == Abs(Mant(z.im, x0))
    IN  IF den * r > num * Pow2(e) \/ den * i > num * Pow2(e) THEN TRUE
        ELSE den * den * (r * r + i * i) > num * num * Pow2(2 * e)

IterC(re2, im2) ==
    /\ iter.s.c.re = Half(re2)
    /\ iter.s.c.im = Half(im2)

\* C1: the count of square_iter(c).take(take).count() is in 0..take; when the
\* magnitude test fired within the first take iterations the count is below
\* take, and when it never fired the count is take.
C1_CountBounded ==
    /\ 0 <= iter.count /\ iter.count <= iter.take
    /\ iter.done => /\ iter.fired => iter.count < iter.take
                    /\ ~iter.fired => iter.count = iter.take

\* C1 witness: a run that escaped on the very last iteration the cap allows,
\* and so ended with count = take - 1
C1_Witness ==
    /\ iter.done /\ iter.fired
    /\ iter.take = MaxTake /\ iter.calls = iter.take
    /\ iter.count = iter.take - 1

\* C2 as stated: the iteration on which escape is detected is counted, so an
\* escape on call n+1 gives count = n+1, and c = 5+0i gives count = 1.
C2_Original ==
    (iter.done /\ iter.fired) =>
        /\ iter.count = iter.calls
        /\ (IterC(10, 0) /\ iter.take >= 1) => iter.count = 1

\* C2 amended: the iteration on which escape is detected is not counted: an
\* escape on call n+1 gives count = n, and c = 5+0i gives count = 0, escaped,
\* for every cap >= 1.
C2_CountExcludesEscape ==
    /\ (iter.done /\ iter.fired) => iter.count = iter.calls - 1
    /\ (iter.done /\ IterC(10, 0) /\ iter.take >= 1) =>
           iter.fired /\ iter.count = 0

\* C2 witness: c = 5+0i evaluated with a cap of at least 1
C2_Witness ==
    /\ iter.done /\ IterC(10, 0) /\ iter.take >= 1 /\ iter.calls = 1

\* C3 as stated: the test fires exactly when the magnitude of the new z
\* exceeds 2, and c = 3+0i escapes on the first iteration.
C3_Original ==
    /\ iter.calls >= 1 => (iter.fired <=> MagnitudeAbove(iter.s.z, 2, 1))
    /\ (iter.done /\ IterC(6, 0) /\ iter.take >= 1) => iter.calls = 1

\* C3 amended: the test compares the magnitude rounded to 5 bits with 4, so
\* it fires exactly when the magnitude of the new z exceeds 4.125 = 33/8; the
\* evaluator stops at the first such iteration within the cap, and c = 3+0i
\* (|z1| = 3, |z2| = 12) escapes on the second iteration, not the first.
C3_ThresholdFour ==
    /\ iter.calls >= 1 => (iter.fired <=> MagnitudeAbove(iter.s.z, 33, 8))
    /\ iter.fired => iter.done
    /\ (iter.done /\ IterC(6, 0) /\ iter.take >= 2) =>
           iter.fired /\ iter.calls = 2 /\ iter.count = 1

\* C3 witness: a point whose magnitude is above 2 but within 4.125 passed the
\* test: c = 3+0i after its first iteration
C3_Witness ==
    /\ IterC(6, 0) /\ iter.calls = 1 /\ ~iter.fired
    /\ MagnitudeAbove(iter.s.z, 2, 1)

(***************************************************************************)
(* Claims about the viewport and the render, checked under SpecRender.     *)
(***************************************************************************)
Rendering == {"mapped", "apply", "saved"}

HasDomain == argv.domain # None

HasRange == argv.range # None

HasZoom == argv.zoom # None

HasCenter == argv.centered_around # None

\* |a - b| <= |d|
Within(a, b, d) == FLeq(FAbs(FSubExact(a, b)), FAbs(d))

\* C4 as stated: with domain (d0, d1), range (r0, r1) and resolution (w, h)
\* the step of an axis is (end - start) / resolution and the origin is the
\* start, so pixel (0, 0) is at (d0, r0) and pixel (w-1, h-1) is within one
\* step of (d1, r1).
C4_Original ==
    (pc \in Rendering /\ args.domain # None) =>
        LET p == BigToInt(prec)
            d == Unwrap(args.domain)
            r == Unwrap(args.range)
            w == args.resolution[1]
            h == args.resolution[2]
        IN  /\ x_step = FDivU(p, FSub(p, d.end, d.start), w)
            /\ y_step = FDivU(p, FSub(p, r.end, r.start), h)
            /\ PixelPoint(p, 0, 0) = [re |-> d.start, im |-> r.start]
            /\ Within(d.end, PixelPoint(p, w - 1, h - 1).re, x_step)
            /\ Within(r.end, PixelPoint(p, w - 1, h - 1).im, y_step)

\* C5 as stated: the program renders only when exactly one of the pairs
\* {domain, range} and {zoom, centered_around} is given in full and nothing
\* of the other, and aborts, before any pixel is evaluated, otherwise.
C5_Original ==
    /\ pc \in Rendering =>
           \/ HasDomain /\ HasRange /\ ~HasZoom /\ ~HasCenter
           \/ ~HasDomain /\ ~HasRange /\ HasZoom /\ HasCenter
    /\ pc \in PanicStates => evals = <<>>

\* C5 amended: domain decides the mode.  With domain the program needs range
\* and ignores zoom and centered_around; without domain it needs zoom and
\* centered_around and ignores range.  So it renders exactly when domain and
\* range are given, or domain is absent and zoom and centered_around are
\* given (both pairs together render, in domain+range mode), and it aborts
\* exactly when domain is given without range, or domain is absent and zoom
\* or centered_around is; on every abort no pixel has been evaluated.
C5_DomainDecidesMode ==
    /\ pc \in Rendering =>
           \/ HasDomain /\ HasRange
           \/ ~HasDomain /\ HasZoom /\ HasCenter
    /\ pc = "panic_expect_range" => HasDomain /\ ~HasRange
    /\ pc = "panic_expect_zoom" => ~HasDomain /\ ~HasZoom
    /\ pc = "panic_expect_center" => ~HasDomain /\ HasZoom /\ ~HasCenter
    /\ pc \in PanicStates => evals = <<>> /\ img = <<>>
    /\ (pc \in Rendering /\ HasDomain) =>
           /\ x_begin = FRound(BigToInt(prec), Unwrap(args.domain).start)
           /\ y_begin = FRound(BigToInt(prec), Unwrap(args.range).start)

\* C5 witness: a render that finished with all four options given
C5_Witness ==
    /\ pc = "saved"
    /\ HasDomain /\ HasRange /\ HasZoom /\ HasCenter
    /\ \A px \in Pixels(args.resolution) : evals[px] = 1

\* The cell of pixel px after the render: the colour of its result, or the
\* initial value when the closure returned None
CellOf(result) == IF result = None THEN <<0, 0, 0>> ELSE Unwrap(result)[3]

\* C6: whatever the order in which the per-pixel tasks ran, the result of a
\* task that has run is the function PixelResult of its pixel and the
\* read-only inputs (origin, steps, precision, take, gradient), the vector
\* applied is in the iterator's order, and the saved buffer holds, for every
\* pixel, the cell of that result.
C6_OrderIndependent ==
    /\ pc \in Rendering =>
           \A px \in Pixels(args.resolution) :
               IF evals[px] = 0 THEN collected[px] = None
               ELSE collected[px] = PixelResult(px[1], px[2])
    /\ pc \in {"apply", "saved"} =>
           \A j \in 1..Len(CollectedVec), k \in 1..Len(CollectedVec) :
               j < k => PixelIndex(args.resolution, CollectedVec[j])
                            < PixelIndex(args.resolution, CollectedVec[k])
    /\ pc = "saved" =>
           img = [px \in Pixels(args.resolution) |->
                      CellOf(PixelResult(px[1], px[2]))]

\* C6 witness: a saved render of several pixels, some of them coloured and
\* some left out
C6_Witness ==
    /\ pc = "saved"
    /\ args.resolution[1] * args.resolution[2] >= 4
    /\ \E px \in Pixels(args.resolution) : puts[px] = 1 /\ img[px] # <<0, 0, 0>>
    /\ \E px \in Pixels(args.resolution) : puts[px] = 0

\* C10: in one render every pixel of the grid is evaluated exactly once, its
\* cell is written exactly once when its count is below take and never when
\* its count is take (the cell keeps the initial value), and no cell
\* outside the grid is written.
C10_WriteOnce ==
    /\ pc \in Rendering =>
           /\ DOMAIN evals = Pixels(args.resolution)
           /\ DOMAIN puts = Pixels(args.resolution)
           /\ DOMAIN img = Pixels(args.resolution)
           /\ \A px \in Pixels(args.resolution) : evals[px] <= 1 /\ puts[px] <= 1
    /\ pc \in {"apply", "saved"} =>
           /\ \A px \in Pixels(args.resolution) : evals[px] = 1
           /\ \A k \in 1..Len(CollectedVec) :
                  <<CollectedVec[k][1], CollectedVec[k][2]>>
                      \in Pixels(args.resolution)
    /\ pc = "saved" =>
           \A px \in Pixels(args.resolution) :
               IF PixelCount(px[1], px[2]) < args.take
               THEN puts[px] = 1
               ELSE /\ PixelCount(px[1], px[2]) = args.take
                    /\ puts[px] = 0 /\ img[px] = <<0, 0, 0>>

\* C10 witness: a saved render in which a pixel escaped and was written and
\* another reached the cap and was not
C10_Witness ==
    /\ pc = "saved" /\ args.take >= 1
    /\ \E px \in Pixels(args.resolution) :
           PixelCount(px[1], px[2]) < args.take /\ puts[px] = 1
    /\ \E px \in Pixels(args.resolution) :
           PixelCount(px[1], px[2]) = args.take /\ puts[px] = 0

(***************************************************************************)
(* Claims about the precision planner, checked under SpecPlan.             *)
(***************************************************************************)
Planned == pc = "planned"

ZoomMode == args.domain = None /\ args.zoom # None

\* The plan of the same command line at the next zoom level
NextZoomPlan ==
    PlannedPrec(build, [args EXCEPT !.zoom =
                            Some(BigAdd(Unwrap(args.zoom), Big(1)))])

\* C7 as stated: in zoom mode, at a fixed resolution, the precision planned
\* for zoom level z+1 is strictly greater than the one planned for z, for
\* every u32 z.
C7_Original ==
    (Planned /\ ZoomMode /\ Unwrap(args.zoom) # U32Max) =>
        (NextZoomPlan.pc = "planned" => BigLess(prec, NextZoomPlan.prec))

\* The sum the plan is meant to be, in unbounded integers
PlainSum ==
    IF args.domain # None
    THEN BigAdd(BigAdd(Big(resolution_prec),
                       BigMax(Unwrap(args.domain).prec, Unwrap(args.range).prec)),
                Big(4))
    ELSE BigAdd(BigAdd(CeilLog2_10(Unwrap(args.zoom)), Big(3)),
                Big(resolution_prec))

\* C8 as stated: a planned precision is never a sum that wrapped modulo 2^32
\* and never zero: a sum beyond the u32 range ends the program instead.
C8_Original ==
    Planned => prec = PlainSum /\ prec # Big(0)

\* ceil(log2(n)) for n >= 1
CeilLog2(n) == BitLen(n - 1)

MaxSide == Max(args.resolution[1], args.resolution[2])

PlanRan == pc \notin {"start", "parsed", "panic_parse"}

\* C9 as stated: resolution_prec = ceil(log2(max(width, height))) + 1 for
\* every resolution, powers of two or not.
C9_Original ==
    PlanRan => resolution_prec = CeilLog2(MaxSide) + 1

\* C9 amended: resolution_prec = floor(log2(max(width, height))) + 1, the
\* number of bits of max(width, height): 2^(resolution_prec - 1) <= max <
\* 2^resolution_prec.  It is the stated value when max is a power of two
\* and one less otherwise.
C9_FloorLog2 ==
    PlanRan =>
        /\ resolution_prec >= 1
        /\ Pow2(resolution_prec - 1) <= MaxSide
        /\ MaxSide < Pow2(resolution_prec)
        /\ resolution_prec =
               IF MaxSide = Pow2(CeilLog2(MaxSide)) THEN CeilLog2(MaxSide) + 1
               ELSE CeilLog2(MaxSide)

\* C9 witness: a plan for a resolution whose larger side is 3
C9_Witness ==
    /\ Planned /\ MaxSide = 3 /\ resolution_prec = 2

=============================================================================
